---- MODULE Spec2Model ----
(***************************************************************************)
(* Model of the HTTP handler of api/trigger-pipeline.js (the revision that *)
(* waits for the fund-sync workflow, lines 1-172).  One request is         *)
(* followed from the entry of handler() to the response.  Every await of   *)
(* the handler is a suspension point: the action before it issues the call *)
(* and the action after it receives one of the outcomes the runtime can    *)
(* deliver (a response, or a rejected promise).                            *)
(* Spec follows one request; SpecMulti follows several invocations that   *)
(* interleave at their awaits, together with the remote run history.       *)
(*                                                                         *)
(* JavaScript values are encoded as strings: "B_true"/"B_false" are the    *)
(* booleans, "S_yes" is the string 'yes', "UNDEF" is undefined (an absent  *)
(* property) and "NULL" is null.                                           *)
(***************************************************************************)
EXTENDS Integers, Sequences, FiniteSets

VARIABLES
    req,              \* the inbound request: method, body
    pc,               \* position of the handler (which await it is suspended at)
    mode,             \* local `mode` after destructuring
    today_only,       \* local `today_only` after destructuring
    attempts,         \* local `attempts` of the polling loop
    response,         \* status of the primary dispatch response (0: none yet)
    workflowResponse, \* status of the current status-poll response (0: none)
    res,              \* the response sent to the caller (status 0: none yet)
    nResponses,       \* number of res.status(..).json(..) calls made
    nPrimary,         \* number of primary dispatch calls issued
    primaryInputs,    \* body of the last primary dispatch call
    nWaits,           \* number of 30s timers started
    nPolls,           \* number of status-poll calls issued
    nSecondary,       \* number of secondary (fund-daily-view) dispatch calls issued
    secondaryInputs,  \* body of the last secondary dispatch call
    lastSecondary,    \* outcome of the last secondary dispatch call
    nSuccessSeen,     \* number of polls that returned completed/success
    firstConclusion,  \* conclusion of the first poll that returned completed
    timeoutLogged,    \* the 'Timeout waiting ...' line was logged
    caught,           \* message of the exception caught at line 165
    \* several concurrent invocations and the remote service (SpecMulti)
    reqs,             \* reqs[r]: the body of request r
    rpc,              \* rpc[r]: position of invocation r
    cells,            \* cells[c]: an `attempts` variable
    rres,             \* rres[r]: status of the response sent by r (0: none)
    rPrimary,         \* rPrimary[r]: primary dispatch calls issued by r
    rSecondary,       \* rSecondary[r]: secondary dispatch calls issued by r
    rRun,             \* rRun[r]: index in runs of the run r's dispatch created
    rSeen,            \* rSeen[r]: index in runs of the run r's last poll returned
    runs,             \* the remote history of fund-sync runs, oldest first
    toCreate,         \* accepted dispatches whose run does not exist yet
    dispatched        \* primary dispatch calls received by the remote service

svars == <<req, pc, mode, today_only, attempts, response, workflowResponse,
           res, nResponses, nPrimary, primaryInputs, nWaits, nPolls,
           nSecondary, secondaryInputs, lastSecondary, nSuccessSeen,
           firstConclusion, timeoutLogged, caught>>
mvars == <<reqs, rpc, cells, rres, rPrimary, rSecondary, rRun, rSeen, runs,
           toCreate, dispatched>>
vars == <<svars, mvars>>

locals == <<mode, today_only>>
out == <<res, nResponses, caught>>
pollGhost == <<nSuccessSeen, firstConclusion>>
secGhost == <<nSecondary, secondaryInputs, lastSecondary>>
primGhost == <<nPrimary, primaryInputs>>

---------------------------------------------------------------------------
(* Program constants and pure helpers                                      *)

maxAttempts == 60

validModes == {"link", "market", "position", "all"}

Methods == {"POST", "GET", "DELETE"}
ModeValues == validModes \cup {"UNDEF", "NULL", "foo"}
TodayOnlyValues == {"B_true", "B_false", "UNDEF", "NULL", "S_yes"}

\* req.body is either undefined (hasBody = FALSE) or an object
Requests ==
    [method : Methods, hasBody : {TRUE}, mode : ModeValues,
     today_only : TodayOnlyValues]
    \cup [method : Methods, hasBody : {FALSE}, mode : {"UNDEF"},
          today_only : {"UNDEF"}]

\* statuses the remote service answers a dispatch / a runs query with
DispatchStatuses == {204, 401, 404, 503}
PollStatuses == {200, 403, 502}

Conclusions == {"success", "failure", "cancelled", "null"}
Run ==
    [status : {"queued", "in_progress"}, conclusion : {"null"}]
    \cup [status : {"completed"}, conclusion : Conclusions]
\* per_page=1: the answer carries at most one run
WorkflowData == [workflow_runs : {<<>>} \cup {<<r>> : r \in Run}]

NoRun == [status |-> "undefined", conclusion |-> "undefined"]

MethodAllowedMut(method) == method \in {"POST", "GET"}
MethodAllowed(method) == method = "POST"

\* `const { x = d } = obj`: the default applies to undefined only
Default(v, d) == IF v = "UNDEF" THEN d ELSE v

IsValidModeMut(m) == m # "NULL"
IsValidMode(m) == m \in validModes

\* today_only.toString(): throws a TypeError on null
HasToStringMut(v) == TRUE
HasToString(v) == v \notin {"NULL", "UNDEF"}

ToString(v) ==
    CASE v = "B_true" -> "true"
      [] v = "B_false" -> "false"
      [] v = "S_yes" -> "yes"
      [] OTHER -> "TypeError"

\* Response.ok
IsOk(status) == status >= 200 /\ status <= 299

WaitsForCompletionOnlyAll(m) == m = "all"
WaitsForCompletionAlsoPosition(m) == m \in {"all", "market", "position"}
WaitsForCompletion(m) == m = "all" \/ m = "market"

LatestRun(workflowData) ==
    IF Len(workflowData.workflow_runs) = 0 THEN NoRun
    ELSE workflowData.workflow_runs[1]

IsCompletedMut(latestRun) == latestRun # NoRun
IsCompleted(latestRun) == latestRun # NoRun /\ latestRun.status = "completed"

ConclusionIsSuccessMut(latestRun) == latestRun.conclusion # "failure"
ConclusionIsSuccessDropped(latestRun) == TRUE
ConclusionIsSuccess(latestRun) == latestRun.conclusion = "success"

LoopGuardMut(a) == a <= maxAttempts
LoopGuard(a) == a < maxAttempts

PrimaryBodyMut(m, t) == [ref |-> "main", mode |-> m, today_only |-> t]
PrimaryBody(m, t) == [ref |-> "main", mode |-> m, today_only |-> ToString(t)]
SecondaryBody == [ref |-> "main", mode |-> "profit", today_only |-> "-"]
NoBody == [ref |-> "-", mode |-> "-", today_only |-> "-"]

---------------------------------------------------------------------------
(* Responses of the handler                                                *)

NoRes == [status |-> 0, error |-> "-", details |-> "-", message |-> "-",
          success |-> "-", mode |-> "-", today_only |-> "-"]

Res405 == [NoRes EXCEPT !.status = 405,
                        !.error = "Method not allowed. Use POST."]
Res400 == [NoRes EXCEPT !.status = 400, !.error = "Invalid mode"]

UpstreamStatusMut(s) == 502
UpstreamStatus(s) == s

ResUpstream(s) == [NoRes EXCEPT !.status = UpstreamStatus(s),
                                !.error = "Failed to trigger GitHub Actions",
                                !.details = "errorText"]
Res200(m, t) == [NoRes EXCEPT !.status = 200, !.success = "true",
                              !.message = "Pipeline triggered successfully",
                              !.mode = m, !.today_only = t]
Res500(msg) == [NoRes EXCEPT !.status = 500,
                             !.error = "Internal server error",
                             !.message = msg]

\* a res.status(..).json(..) without its `return`: the handler runs on
RespondMut(r) ==
    /\ res' = r
    /\ nResponses' = nResponses + 1
    /\ pc' = pc
    /\ UNCHANGED caught

Respond(r) ==
    /\ res' = r
    /\ nResponses' = nResponses + 1
    /\ pc' = "done"
    /\ UNCHANGED caught

\* a catch that logs and sends nothing
CatchMut(msg) ==
    /\ caught' = msg
    /\ pc' = "crashed"
    /\ UNCHANGED <<res, nResponses>>

\* lines 165-171: the outer catch answers 500 with error.message
Catch(msg) ==
    /\ caught' = msg
    /\ res' = Res500(msg)
    /\ nResponses' = nResponses + 1
    /\ pc' = "done"

---------------------------------------------------------------------------
(* Initial state: a request has arrived and handler() has not run yet      *)

\* the variables of SpecMulti, unused while one request is followed
MultiIdle ==
    /\ reqs = <<>>
    /\ rpc = <<>>
    /\ cells = <<>>
    /\ rres = <<>>
    /\ rPrimary = <<>>
    /\ rSecondary = <<>>
    /\ rRun = <<>>
    /\ rSeen = <<>>
    /\ runs = <<>>
    /\ toCreate = {}
    /\ dispatched = 0

Init ==
    /\ req \in Requests
    /\ pc = "start"
    /\ mode = "UNSET"
    /\ today_only = "UNSET"
    /\ attempts = 0
    /\ response = 0
    /\ workflowResponse = 0
    /\ res = NoRes
    /\ nResponses = 0
    /\ nPrimary = 0
    /\ primaryInputs = NoBody
    /\ nWaits = 0
    /\ nPolls = 0
    /\ nSecondary = 0
    /\ secondaryInputs = NoBody
    /\ lastSecondary = "none"
    /\ nSuccessSeen = 0
    /\ firstConclusion = "none"
    /\ timeoutLogged = FALSE
    /\ caught = "none"
    /\ MultiIdle

---------------------------------------------------------------------------
(* Pieces of control flow shared by several actions                        *)

\* lines 121-123 and 157-163: after the loop, log the timeout and answer 200
AfterLoop ==
    /\ timeoutLogged' = (attempts >= maxAttempts)
    /\ Respond(Res200(mode, today_only))
    /\ UNCHANGED nWaits

\* line 58-59: the loop test, then the 30 s timer of the next iteration
LoopTest ==
    IF LoopGuard(attempts)
    THEN /\ pc' = "wait"
         /\ nWaits' = nWaits + 1
         /\ UNCHANGED <<out, timeoutLogged>>
    ELSE AfterLoop

\* lines 85-101 / 129-145: issue the fund-daily-view dispatch
IssueSecondary(at) ==
    /\ nSecondary' = nSecondary + 1
    /\ secondaryInputs' = SecondaryBody
    /\ lastSecondary' = "pending"
    /\ pc' = at

---------------------------------------------------------------------------
(* The handler, one action per segment between two awaits                  *)

\* lines 1-36: method check, destructuring, validation, primary dispatch
Start ==
    /\ pc = "start"
    /\ IF ~MethodAllowed(req.method)
       THEN /\ Respond(Res405)
            /\ UNCHANGED <<locals, primGhost>>
       ELSE IF ~req.hasBody
       THEN \* destructuring undefined throws; caught at line 165
            /\ Catch("Cannot destructure")
            /\ UNCHANGED <<locals, primGhost>>
       ELSE
            /\ mode' = Default(req.mode, "all")
            /\ today_only' = Default(req.today_only, "B_false")
            /\ IF ~IsValidMode(mode')
               THEN /\ Respond(Res400)
                    /\ UNCHANGED primGhost
               ELSE IF ~HasToString(today_only')
               THEN \* today_only.toString() throws while the body is built
                    /\ Catch("Cannot read properties of null")
                    /\ UNCHANGED primGhost
               ELSE /\ nPrimary' = nPrimary + 1
                    /\ primaryInputs' = PrimaryBody(mode', today_only')
                    /\ pc' = "await_primary"
                    /\ UNCHANGED <<out>>
    /\ UNCHANGED <<req, attempts, response, workflowResponse, nWaits, nPolls,
                   secGhost, pollGhost, timeoutLogged>>

\* line 19 rejects: fetch throws, caught at line 165
PrimaryThrows ==
    /\ pc = "await_primary"
    /\ Catch("fetch failed")
    /\ UNCHANGED <<req, locals, attempts, response, workflowResponse,
                   primGhost, nWaits, nPolls, secGhost, pollGhost,
                   timeoutLogged>>

\* lines 19-59 / 124-145: the primary dispatch answers with status s
PrimaryReturns(s) ==
    /\ pc = "await_primary"
    /\ response' = s
    /\ IF ~IsOk(s)
       THEN /\ pc' = "await_text"
            /\ UNCHANGED <<attempts, out, nWaits, secGhost,
                           timeoutLogged>>
       ELSE IF WaitsForCompletion(mode)
       THEN /\ attempts' = 0
            /\ LoopTest
            /\ UNCHANGED secGhost
       ELSE /\ IssueSecondary("await_secondary_now")
            /\ UNCHANGED <<attempts, out, nWaits, timeoutLogged>>
    /\ UNCHANGED <<req, locals, workflowResponse, primGhost, nPolls, pollGhost>>

\* lines 39-44: the error body was read, pass the upstream status on
TextReturns ==
    /\ pc = "await_text"
    /\ Respond(ResUpstream(response))
    /\ UNCHANGED <<req, locals, attempts, response, workflowResponse,
                   primGhost, nWaits, nPolls, secGhost, pollGhost,
                   timeoutLogged>>

\* line 39 rejects: reading the error body fails, caught at line 165
TextThrows ==
    /\ pc = "await_text"
    /\ Catch("body read failed")
    /\ UNCHANGED <<req, locals, attempts, response, workflowResponse,
                   primGhost, nWaits, nPolls, secGhost, pollGhost,
                   timeoutLogged>>

\* lines 59-73: the timer fires, attempts++, the status poll is issued
TimerFires ==
    /\ pc = "wait"
    /\ attempts' = attempts + 1
    /\ nPolls' = nPolls + 1
    /\ workflowResponse' = 0
    /\ pc' = "await_poll"
    /\ UNCHANGED <<req, locals, response, out, primGhost, nWaits,
                   secGhost, pollGhost, timeoutLogged>>

\* line 64 rejects: caught at line 116, the loop goes on
PollThrows ==
    /\ pc = "await_poll"
    /\ LoopTest
    /\ UNCHANGED <<req, locals, attempts, response, workflowResponse,
                   primGhost, nPolls, secGhost, pollGhost>>

\* lines 64-76: the status poll answers with status s
PollReturns(s) ==
    /\ pc = "await_poll"
    /\ workflowResponse' = s
    /\ IF IsOk(s)
       THEN /\ pc' = "await_json"
            /\ UNCHANGED <<out, nWaits, timeoutLogged>>
       ELSE LoopTest
    /\ UNCHANGED <<req, locals, attempts, response, primGhost, nPolls,
                   secGhost, pollGhost>>

\* line 76 rejects, or line 77 throws on a body without workflow_runs:
\* caught at line 116, the loop goes on
JsonThrows ==
    /\ pc = "await_json"
    /\ LoopTest
    /\ UNCHANGED <<req, locals, attempts, response, workflowResponse,
                   primGhost, nPolls, secGhost, pollGhost>>

\* lines 76-114: the body of the status poll is workflowData
JsonReturns(workflowData) ==
    /\ pc = "await_json"
    /\ LET latestRun == LatestRun(workflowData) IN
       IF IsCompleted(latestRun)
       THEN /\ firstConclusion' = IF firstConclusion = "none"
                                  THEN latestRun.conclusion
                                  ELSE firstConclusion
            /\ IF ConclusionIsSuccess(latestRun)
               THEN /\ nSuccessSeen' = nSuccessSeen + 1
                    /\ IssueSecondary("await_secondary_loop")
                    /\ UNCHANGED <<out, nWaits, timeoutLogged>>
               ELSE \* line 111: break
                    /\ AfterLoop
                    /\ UNCHANGED <<nSuccessSeen, secGhost>>
       ELSE /\ LoopTest
            /\ UNCHANGED <<pollGhost, secGhost>>
    /\ UNCHANGED <<req, locals, attempts, response, workflowResponse,
                   primGhost, nPolls>>

\* lines 85-111: the secondary dispatch of the loop answers; break
LoopSecondaryReturns(s) ==
    /\ pc = "await_secondary_loop"
    /\ lastSecondary' = IF IsOk(s) THEN "ok" ELSE "failed"
    /\ AfterLoop
    /\ UNCHANGED <<req, locals, attempts, response, workflowResponse,
                   primGhost, nPolls, nSecondary, secondaryInputs, pollGhost>>

\* line 85 rejects inside the try of line 62: caught at line 116, so the
\* break of line 111 is not reached and the loop goes on
LoopSecondaryThrows ==
    /\ pc = "await_secondary_loop"
    /\ lastSecondary' = "threw"
    /\ LoopTest
    /\ UNCHANGED <<req, locals, attempts, response, workflowResponse,
                   primGhost, nPolls, nSecondary, secondaryInputs, pollGhost>>

AfterImmediateThrowMut(m, t) == Res500("fetch failed")
\* lines 152-163: the catch swallows the error, the handler answers 200
AfterImmediateThrow(m, t) == Res200(m, t)

\* lines 129-163: the immediate secondary dispatch answers
NowSecondaryReturns(s) ==
    /\ pc = "await_secondary_now"
    /\ lastSecondary' = IF IsOk(s) THEN "ok" ELSE "failed"
    /\ Respond(Res200(mode, today_only))
    /\ UNCHANGED <<req, locals, attempts, response, workflowResponse,
                   primGhost, nWaits, nPolls, nSecondary, secondaryInputs,
                   pollGhost, timeoutLogged>>

\* line 129 rejects: caught at line 152
NowSecondaryThrows ==
    /\ pc = "await_secondary_now"
    /\ lastSecondary' = "threw"
    /\ Respond(AfterImmediateThrow(mode, today_only))
    /\ UNCHANGED <<req, locals, attempts, response, workflowResponse,
                   primGhost, nWaits, nPolls, nSecondary, secondaryInputs,
                   pollGhost, timeoutLogged>>

Next ==
    \/ Start /\ UNCHANGED mvars
    \/ PrimaryThrows /\ UNCHANGED mvars
    \/ \E s \in DispatchStatuses : PrimaryReturns(s) /\ UNCHANGED mvars
    \/ TextReturns /\ UNCHANGED mvars
    \/ TextThrows /\ UNCHANGED mvars
    \/ TimerFires /\ UNCHANGED mvars
    \/ PollThrows /\ UNCHANGED mvars
    \/ \E s \in PollStatuses : PollReturns(s) /\ UNCHANGED mvars
    \/ JsonThrows /\ UNCHANGED mvars
    \/ \E d \in WorkflowData : JsonReturns(d) /\ UNCHANGED mvars
    \/ \E s \in DispatchStatuses : LoopSecondaryReturns(s) /\ UNCHANGED mvars
    \/ LoopSecondaryThrows /\ UNCHANGED mvars
    \/ \E s \in DispatchStatuses : NowSecondaryReturns(s) /\ UNCHANGED mvars
    \/ NowSecondaryThrows /\ UNCHANGED mvars

Spec == Init /\ [][Next]_vars

\* every outbound call and every timer eventually returns, throws or fires
FairSpec == Spec /\ WF_vars(Next)

---------------------------------------------------------------------------
(* Several invocations of the handler, interleaved at their awaits, and    *)
(* the remote workflow service they talk to.  All requests are POSTs.  An  *)
(* accepted dispatch creates its run some time later; a status poll        *)
(* returns the most recent run only (per_page=1).  The error body of a     *)
(* refused dispatch is read in the step that receives the refusal.  The    *)
(* handler does not tell queued from in_progress, so a run goes from       *)
(* queued to completed in one step.                                        *)

NumRequests == 2
\* status polls (of all invocations together) that are followed; each loop
\* itself runs to maxAttempts
PollsExplored == 2

Reqs == 1..NumRequests
MultiModes == {"all", "link"}
MultiRequests == [mode : MultiModes, today_only : {"B_true"}]
MultiStatuses == {204, 404}

RunConclusions == {"success", "failure"}
\* runs left by earlier requests
InitialHistories ==
    {<<>>, <<[status |-> "completed", conclusion |-> "success"]>>}

\* line 55: `let attempts` is declared inside handler, one per invocation
AttemptsCellShared(r) == 1
AttemptsCell(r) == r

MMode(r) == Default(reqs[r].mode, "all")
MTodayOnly(r) == Default(reqs[r].today_only, "B_false")
MAttempts(r) == cells[AttemptsCell(r)]

RECURSIVE SumTo(_, _)
SumTo(f, n) == IF n = 0 THEN 0 ELSE f[n] + SumTo(f, n - 1)
PollsIssued == SumTo(cells, NumRequests)

\* the body of the answer to a status poll
RemoteLatest ==
    [workflow_runs |-> IF Len(runs) = 0 THEN <<>> ELSE <<runs[Len(runs)]>>]

SingleIdle ==
    /\ req = [method |-> "POST", hasBody |-> FALSE, mode |-> "UNDEF",
              today_only |-> "UNDEF"]
    /\ pc = "idle"
    /\ mode = "UNSET"
    /\ today_only = "UNSET"
    /\ attempts = 0
    /\ response = 0
    /\ workflowResponse = 0
    /\ res = NoRes
    /\ nResponses = 0
    /\ nPrimary = 0
    /\ primaryInputs = NoBody
    /\ nWaits = 0
    /\ nPolls = 0
    /\ nSecondary = 0
    /\ secondaryInputs = NoBody
    /\ lastSecondary = "none"
    /\ nSuccessSeen = 0
    /\ firstConclusion = "none"
    /\ timeoutLogged = FALSE
    /\ caught = "none"

MInit ==
    /\ SingleIdle
    /\ reqs \in [Reqs -> MultiRequests]
    /\ rpc = [r \in Reqs |-> "start"]
    /\ cells = [c \in Reqs |-> 0]
    /\ rres = [r \in Reqs |-> 0]
    /\ rPrimary = [r \in Reqs |-> 0]
    /\ rSecondary = [r \in Reqs |-> 0]
    /\ rRun = [r \in Reqs |-> 0]
    /\ rSeen = [r \in Reqs |-> 0]
    /\ runs \in InitialHistories
    /\ toCreate = {}
    /\ dispatched = 0

MGoto(r, at) == rpc' = [rpc EXCEPT ![r] = at]

MRespond(r, status) ==
    /\ rres' = [rres EXCEPT ![r] = status]
    /\ MGoto(r, "done")

\* lines 58-59, 121-163 with the attempts of invocation r
MLoopTest(r, a) ==
    IF LoopGuard(a)
    THEN MGoto(r, "wait") /\ UNCHANGED rres
    ELSE MRespond(r, 200)

MIssueSecondary(r, at) ==
    /\ rSecondary' = [rSecondary EXCEPT ![r] = @ + 1]
    /\ MGoto(r, at)

\* lines 7-36
MStart(r) ==
    /\ rpc[r] = "start"
    /\ IF ~IsValidMode(MMode(r))
       THEN MRespond(r, 400) /\ UNCHANGED <<rPrimary, dispatched>>
       ELSE IF ~HasToString(MTodayOnly(r))
       THEN MRespond(r, 500) /\ UNCHANGED <<rPrimary, dispatched>>
       ELSE /\ rPrimary' = [rPrimary EXCEPT ![r] = @ + 1]
            /\ dispatched' = dispatched + 1
            /\ MGoto(r, "await_primary")
            /\ UNCHANGED rres
    /\ UNCHANGED <<reqs, cells, rSecondary, rRun, rSeen, runs, toCreate>>

\* line 19 rejects
MPrimaryThrows(r) ==
    /\ rpc[r] = "await_primary"
    /\ MRespond(r, 500)
    /\ UNCHANGED <<reqs, cells, rPrimary, rSecondary, rRun, rSeen, runs,
                   toCreate, dispatched>>

\* lines 38-45: the dispatch is refused with status s
MPrimaryRefused(r, s, textThrows) ==
    /\ rpc[r] = "await_primary"
    /\ ~IsOk(s)
    /\ MRespond(r, IF textThrows THEN 500 ELSE UpstreamStatus(s))
    /\ UNCHANGED <<reqs, cells, rPrimary, rSecondary, rRun, rSeen, runs,
                   toCreate, dispatched>>

\* lines 47-59 / 124-145: the dispatch is accepted with status s
MPrimaryAccepted(r, s) ==
    /\ rpc[r] = "await_primary"
    /\ IsOk(s)
    /\ toCreate' = toCreate \cup {r}
    /\ IF WaitsForCompletion(MMode(r))
       THEN /\ cells' = [cells EXCEPT ![AttemptsCell(r)] = 0]
            /\ MLoopTest(r, 0)
            /\ UNCHANGED rSecondary
       ELSE /\ MIssueSecondary(r, "await_secondary_now")
            /\ UNCHANGED <<cells, rres>>
    /\ UNCHANGED <<reqs, rPrimary, rRun, rSeen, runs, dispatched>>

\* lines 59-73
MTimerFires(r) ==
    /\ rpc[r] = "wait"
    /\ PollsIssued < PollsExplored
    /\ cells' = [cells EXCEPT ![AttemptsCell(r)] = @ + 1]
    /\ MGoto(r, "await_poll")
    /\ UNCHANGED <<reqs, rres, rPrimary, rSecondary, rRun, rSeen, runs,
                   toCreate, dispatched>>

\* lines 64-77 throw or answer non-ok: the loop goes on
MPollFails(r) ==
    /\ rpc[r] = "await_poll"
    /\ MLoopTest(r, MAttempts(r))
    /\ UNCHANGED <<reqs, cells, rPrimary, rSecondary, rRun, rSeen, runs,
                   toCreate, dispatched>>

\* lines 75-114: the poll answers with the most recent run
MPollReturns(r) ==
    /\ rpc[r] = "await_poll"
    /\ rSeen' = [rSeen EXCEPT ![r] = Len(runs)]
    /\ LET latestRun == LatestRun(RemoteLatest) IN
       IF IsCompleted(latestRun)
       THEN IF ConclusionIsSuccess(latestRun)
            THEN MIssueSecondary(r, "await_secondary_loop") /\ UNCHANGED rres
            ELSE MRespond(r, 200) /\ UNCHANGED rSecondary
       ELSE MLoopTest(r, MAttempts(r)) /\ UNCHANGED rSecondary
    /\ UNCHANGED <<reqs, cells, rPrimary, rRun, runs, toCreate, dispatched>>

\* lines 103-111: the secondary dispatch answers (ok or not); break
MLoopSecondaryReturns(r) ==
    /\ rpc[r] = "await_secondary_loop"
    /\ MRespond(r, 200)
    /\ UNCHANGED <<reqs, cells, rPrimary, rSecondary, rRun, rSeen, runs,
                   toCreate, dispatched>>

\* line 85 rejects: caught at line 116, the loop goes on
MLoopSecondaryThrows(r) ==
    /\ rpc[r] = "await_secondary_loop"
    /\ MLoopTest(r, MAttempts(r))
    /\ UNCHANGED <<reqs, cells, rPrimary, rSecondary, rRun, rSeen, runs,
                   toCreate, dispatched>>

\* lines 129-163: the immediate secondary dispatch answers or rejects
MNowSecondarySettles(r) ==
    /\ rpc[r] = "await_secondary_now"
    /\ MRespond(r, 200)
    /\ UNCHANGED <<reqs, cells, rPrimary, rSecondary, rRun, rSeen, runs,
                   toCreate, dispatched>>

\* the remote service creates the run of an accepted dispatch
RemoteCreatesRun(r) ==
    /\ r \in toCreate
    /\ toCreate' = toCreate \ {r}
    /\ runs' = Append(runs, [status |-> "queued", conclusion |-> "null"])
    /\ rRun' = [rRun EXCEPT ![r] = Len(runs) + 1]
    /\ UNCHANGED <<reqs, rpc, cells, rres, rPrimary, rSecondary, rSeen,
                   dispatched>>

\* a run ends with conclusion c
RemoteRunAdvances(i, c) ==
    /\ i \in 1..Len(runs)
    /\ \/ /\ runs[i].status = "queued"
          /\ runs' = [runs EXCEPT ![i] = [status |-> "completed",
                                          conclusion |-> c]]
    /\ UNCHANGED <<reqs, rpc, cells, rres, rPrimary, rSecondary, rRun, rSeen,
                   toCreate, dispatched>>

MNext ==
    \/ \E r \in Reqs : MStart(r) /\ UNCHANGED svars
    \/ \E r \in Reqs : MPrimaryThrows(r) /\ UNCHANGED svars
    \/ \E r \in Reqs, s \in MultiStatuses, t \in BOOLEAN :
          MPrimaryRefused(r, s, t) /\ UNCHANGED svars
    \/ \E r \in Reqs, s \in MultiStatuses :
          MPrimaryAccepted(r, s) /\ UNCHANGED svars
    \/ \E r \in Reqs : MTimerFires(r) /\ UNCHANGED svars
    \/ \E r \in Reqs : MPollFails(r) /\ UNCHANGED svars
    \/ \E r \in Reqs : MPollReturns(r) /\ UNCHANGED svars
    \/ \E r \in Reqs : MLoopSecondaryReturns(r) /\ UNCHANGED svars
    \/ \E r \in Reqs : MLoopSecondaryThrows(r) /\ UNCHANGED svars
    \/ \E r \in Reqs : MNowSecondarySettles(r) /\ UNCHANGED svars
    \/ \E r \in Reqs : RemoteCreatesRun(r) /\ UNCHANGED svars
    \/ \E i \in 1..(NumRequests + 1), c \in RunConclusions :
          RemoteRunAdvances(i, c) /\ UNCHANGED svars

SpecMulti == MInit /\ [][MNext]_vars

---------------------------------------------------------------------------
(* Properties                                                              *)

\* the modes the properties call "waited" and "immediate"
WaitedModes == {"all", "market"}
ImmediateModes == {"position", "link"}
PrimaryOk == response >= 200 /\ response <= 299
PrimaryRefused == response # 0 /\ ~PrimaryOk
NoOutboundCall == nPrimary = 0 /\ nWaits = 0 /\ nPolls = 0 /\ nSecondary = 0

\* C1: in a request of mode all/market whose primary dispatch succeeded, the
\* secondary dispatch is never issued a second time, and once the handler
\* has answered after a poll saw completed/success it was issued exactly once.
C1_SecondaryExactlyOnce ==
    (mode \in WaitedModes /\ PrimaryOk) =>
        /\ nSecondary <= 1
        /\ (pc = "done" /\ nSuccessSeen >= 1) => nSecondary = 1

\* C2: when the first poll that observes a completed run reports a
\* conclusion other than success, no secondary dispatch is ever issued and
\* the polling is over (the handler has answered; no timer, no poll pending).
C2_NoSecondaryOnNonSuccess ==
    (mode \in WaitedModes /\ firstConclusion \notin {"none", "success"}) =>
        /\ nSecondary = 0
        /\ pc = "done"
        /\ res.status = 200

C2_Witness ==
    /\ mode = "market"
    /\ firstConclusion = "cancelled"
    /\ nPolls = 3
    /\ pc = "done"

\* C3: once the 60th poll has ended and no poll has observed a completed
\* run, no secondary dispatch was issued, nothing more is started and the
\* handler has answered 200.
C3_TimeoutNoSecondary ==
    (/\ mode \in WaitedModes
     /\ nPolls >= 60
     /\ pc \notin {"await_poll", "await_json"}
     /\ firstConclusion = "none") =>
        /\ nSecondary = 0
        /\ pc = "done"
        /\ res.status = 200

C3_Witness ==
    /\ mode = "market"
    /\ nPolls = 60
    /\ firstConclusion = "none"
    /\ pc = "done"
    /\ workflowResponse = 502

\* C4: a timer or a status poll exists only after the one primary dispatch
\* was acknowledged ok; a secondary dispatch exists only after the primary
\* dispatch returned ok and, for all/market, every secondary dispatch has
\* its own earlier poll that returned completed/success.
C4_Ordering ==
    /\ (nWaits > 0 \/ nPolls > 0) => (nPrimary = 1 /\ PrimaryOk)
    /\ nSecondary > 0 => (nPrimary = 1 /\ PrimaryOk)
    /\ mode \in WaitedModes =>
          (nSecondary <= nSuccessSeen /\ nSuccessSeen <= nPolls)
    /\ pc = "await_primary" => (nWaits = 0 /\ nPolls = 0 /\ nSecondary = 0)

C4_Witness ==
    /\ mode = "market"
    /\ nPolls = 2
    /\ nSuccessSeen = 1
    /\ nSecondary = 1
    /\ pc = "await_secondary_loop"

\* C5 as stated: after a non-2xx primary dispatch the handler answers with
\* exactly that status, error and details, and polls and dispatches nothing.
C5_UpstreamStatusAlways ==
    PrimaryRefused =>
        /\ nWaits = 0 /\ nPolls = 0 /\ nSecondary = 0
        /\ pc = "done" =>
              /\ res.status = response
              /\ res.error = "Failed to trigger GitHub Actions"
              /\ res.details = "errorText"

\* C5 amended: after a non-2xx primary dispatch the handler polls and
\* dispatches nothing; it answers with exactly that status, error and
\* details when the error body could be read, and with 500 and the
\* exception's message when reading it threw.
C5_UpstreamStatusOrBodyError ==
    PrimaryRefused =>
        /\ nWaits = 0 /\ nPolls = 0 /\ nSecondary = 0
        /\ (pc = "done" /\ caught = "none") =>
              /\ res.status = response
              /\ res.error = "Failed to trigger GitHub Actions"
              /\ res.details = "errorText"
        /\ (pc = "done" /\ caught # "none") =>
              /\ caught = "body read failed"
              /\ res.status = 500
              /\ res.message = caught

C5_Witness ==
    /\ response = 404
    /\ pc = "done"
    /\ res.status = 404
    /\ mode = "all"

\* C6: whenever the primary dispatch returned ok, the one response is 200
\* with success true and the mode and today_only of the request (defaults
\* applied), and nothing else: it is a function of the request alone.
C6_ResponseAfterPrimaryOk ==
    (PrimaryOk /\ pc = "done") =>
        /\ nResponses = 1
        /\ res.status = 200
        /\ res.success = "true"
        /\ res.mode = (IF req.mode = "UNDEF" THEN "all" ELSE req.mode)
        /\ res.today_only =
              (IF req.today_only = "UNDEF" THEN "B_false" ELSE req.today_only)
        /\ res.message = "Pipeline triggered successfully"
        /\ res.error = "-"
        /\ res.details = "-"

C6_Witness ==
    /\ PrimaryOk
    /\ pc = "done"
    /\ mode = "link"
    /\ lastSecondary = "threw"
    /\ req.today_only = "B_true"

\* C7: in a request of mode position/link whose primary dispatch returned
\* ok, exactly one secondary dispatch is issued, and no timer and no poll.
C7_ImmediateNoPolling ==
    (mode \in ImmediateModes /\ PrimaryOk) =>
        /\ nSecondary = 1
        /\ nPolls = 0
        /\ nWaits = 0

C7_Witness ==
    /\ mode = "position"
    /\ PrimaryOk
    /\ pc = "done"
    /\ res.status = 200
    /\ nSecondary = 1

\* C8: a POST request whose body carries a mode outside link, market,
\* position, all makes no outbound call and is answered 400.
C8_InvalidMode400 ==
    (/\ req.method = "POST"
     /\ req.hasBody
     /\ req.mode \notin {"link", "market", "position", "all", "UNDEF"}) =>
        /\ NoOutboundCall
        /\ pc = "done" => (res.status = 400 /\ nResponses = 1)

C8_Witness ==
    /\ req.method = "POST"
    /\ req.mode = "foo"
    /\ req.today_only = "NULL"
    /\ res.status = 400

\* C9: a request whose method is not POST makes no outbound call and is
\* answered 405, whatever its body.
C9_NotPost405 ==
    req.method # "POST" =>
        /\ NoOutboundCall
        /\ pc = "done" => (res.status = 405 /\ nResponses = 1)

C9_Witness ==
    /\ req.method = "GET"
    /\ ~req.hasBody
    /\ res.status = 405

\* C10: a missing body, a today_only without toString (with a valid mode) or
\* a throwing primary dispatch is answered 500 with the exception's
\* message; no poll and no secondary dispatch is issued.
C10_ExceptionIs500 ==
    /\ (req.method = "POST" /\ ~req.hasBody) =>
          /\ NoOutboundCall
          /\ pc = "done" => (res.status = 500 /\ caught = "Cannot destructure")
    /\ (/\ req.method = "POST" /\ req.hasBody
        /\ req.mode \in {"link", "market", "position", "all", "UNDEF"}
        /\ req.today_only = "NULL") =>
          /\ NoOutboundCall
          /\ pc = "done" =>
                (res.status = 500 /\ caught = "Cannot read properties of null")
    /\ (pc = "done" /\ nPrimary = 1 /\ response = 0) =>
          (res.status = 500 /\ caught = "fetch failed")
    /\ response = 0 => (nWaits = 0 /\ nPolls = 0 /\ nSecondary = 0)
    /\ res.status = 500 => (res.message = caught /\ nResponses = 1)

C10_Witness ==
    /\ pc = "done"
    /\ nPrimary = 1
    /\ response = 0
    /\ res.status = 500
    /\ res.message = "fetch failed"
    /\ mode = "all"

\* C12: the primary dispatch carries ref main, the request's mode and the
\* string form of its boolean today_only; the 200 response echoes mode and
\* the boolean itself; every secondary dispatch carries ref main and mode
\* profit, whatever the request.
C12_DispatchInputs ==
    LET m == IF req.mode = "UNDEF" THEN "all" ELSE req.mode
        b == IF req.today_only = "UNDEF" THEN "B_false" ELSE req.today_only
    IN  /\ (nPrimary > 0 /\ b \in {"B_true", "B_false"}) =>
              /\ primaryInputs.ref = "main"
              /\ primaryInputs.mode = m
              /\ primaryInputs.today_only =
                    (IF b = "B_true" THEN "true" ELSE "false")
        /\ (res.status = 200 /\ b \in {"B_true", "B_false"}) =>
              (res.mode = m /\ res.today_only = b /\ res.success = "true")
        /\ nSecondary > 0 =>
              /\ secondaryInputs.ref = "main"
              /\ secondaryInputs.mode = "profit"
              /\ secondaryInputs.today_only = "-"
        /\ (req.mode = "link" /\ req.today_only = "B_true" /\ PrimaryOk) =>
              (nSecondary = 1 /\ nPolls = 0)

C12_Witness ==
    /\ req.mode = "link"
    /\ req.today_only = "B_true"
    /\ primaryInputs = [ref |-> "main", mode |-> "link", today_only |-> "true"]
    /\ secondaryInputs.mode = "profit"
    /\ res.status = 200
    /\ res.today_only = "B_true"

\* C14: at most 60 status polls are issued, no poll is issued before its
\* own timer has fired, and every timer is followed by exactly one poll: the
\* timers started are the polls issued, plus the one still running.
C14_PollBudget ==
    /\ nPolls <= 60
    /\ nPolls <= nWaits
    /\ nWaits = nPolls + (IF pc = "wait" THEN 1 ELSE 0)
    /\ attempts = nPolls

C14_Witness ==
    /\ nPolls = 60
    /\ nWaits = 60
    /\ pc = "await_poll"

\* C15: a poll that throws, answers non-ok, carries no run or a run that is
\* queued/in_progress issues no secondary dispatch, consumes no further
\* attempt and, while the budget lasts, leads to the next timer without a
\* response; a poll that carries completed/success issues the secondary
\* dispatch however many polls failed before it.
C15_NotTerminal ==
    [][ /\ ( \/ PollThrows
             \/ JsonThrows
             \/ \E s \in PollStatuses : (s < 200 \/ s > 299) /\ PollReturns(s)
             \/ \E d \in WorkflowData :
                   /\ JsonReturns(d)
                   /\ \A i \in 1..Len(d.workflow_runs) :
                         d.workflow_runs[i].status # "completed" )
           => /\ nSecondary' = nSecondary
              /\ attempts' = attempts
              /\ attempts < 60 => (pc' = "wait" /\ res' = res)
        /\ ( \E d \in WorkflowData :
                   /\ JsonReturns(d)
                   /\ Len(d.workflow_runs) > 0
                   /\ d.workflow_runs[1].status = "completed"
                   /\ d.workflow_runs[1].conclusion = "success" )
           => (nSecondary' = nSecondary + 1 /\ pc' = "await_secondary_loop")
      ]_vars

C15_Witness ==
    /\ nPolls = 4
    /\ nSuccessSeen = 1
    /\ nSecondary = 1
    /\ workflowResponse = 200
    /\ pc = "await_secondary_loop"

\* C16: once a poll has observed a completed run, no timer is running and
\* no status poll is in flight any more in that request.
C16_CompletedStopsPolling ==
    firstConclusion # "none" => pc \notin {"wait", "await_poll", "await_json"}

\* C17: in a finished all/market request whose primary dispatch returned ok,
\* the timeout line was logged exactly when no poll observed a completed run.
C17_TimeoutIffNotCompleted ==
    (pc = "done" /\ mode \in WaitedModes /\ PrimaryOk) =>
        (timeoutLogged <=> firstConclusion = "none")

\* C18: once the response is sent the handler is at its end: no timer is
\* running, no call is in flight, and no later step issues a call, starts a
\* timer or sends another response.
C18_ResponseIsLast ==
    /\ [](nResponses > 0 =>
            /\ pc = "done"
            /\ nWaits = nPolls
            /\ lastSecondary # "pending")
    /\ [][nResponses > 0 =>
            /\ nPrimary' = nPrimary
            /\ nWaits' = nWaits
            /\ nPolls' = nPolls
            /\ nSecondary' = nSecondary
            /\ nResponses' = nResponses]_vars

C18_Witness ==
    /\ nResponses = 1
    /\ pc = "done"
    /\ mode = "all"
    /\ nPolls = 3
    /\ lastSecondary = "failed"

\* C19: every invocation ends with a response, and never sends a second one.
C19_OneResponseEventually ==
    /\ <>(pc = "done" /\ nResponses = 1)
    /\ [](nResponses <= 1)

C19_Witness ==
    /\ pc = "done"
    /\ nResponses = 1
    /\ nPolls = 60
    /\ nSecondary = 2
    /\ lastSecondary = "threw"

C13_OwnRunSucceeded ==
    \A r \in DOMAIN rpc :
        (MMode(r) \in WaitedModes /\ rSecondary[r] > 0) =>
            /\ rRun[r] # 0
            /\ runs[rRun[r]].status = "completed"
            /\ runs[rRun[r]].conclusion = "success"

\* C13 amended: when an all/market invocation issues a secondary dispatch,
\* its own primary dispatch was accepted, and the run its last poll returned
\* as the most recent one is completed with conclusion success; that run
\* need not be the one its own dispatch created.
C13_LatestRunSucceeded ==
    \A r \in DOMAIN rpc :
        (MMode(r) \in WaitedModes /\ rpc[r] = "await_secondary_loop") =>
            /\ rPrimary[r] = 1
            /\ (r \in toCreate \/ rRun[r] # 0)
            /\ rSecondary[r] > 0
            /\ rSeen[r] \in 1..Len(runs)
            /\ runs[rSeen[r]].status = "completed"
            /\ runs[rSeen[r]].conclusion = "success"

C13_Witness ==
    /\ rpc # <<>>
    /\ rpc[1] = "await_secondary_loop"
    /\ rRun[1] # 0
    /\ rRun[2] # 0
    /\ rSeen[1] = rRun[2]
    /\ runs[rRun[1]].status = "queued"

====
